---- MODULE Spec2Model ----
(***************************************************************************)
(* Presentation-surface negotiation of the Vulkan tutorial program          *)
(* (src/Presentation/swap_chain.cpp): queue family resolution, surface      *)
(* format / presentation mode / extent selection and the swap chain image   *)
(* count.                                                                   *)
(*                                                                          *)
(* Each function of the program is exercised by a specification of its own  *)
(* (SpecQueueFamilies, SpecSurfaceFormat, SpecPresentMode, SpecExtent,      *)
(* SpecImageCount): its Init draws the function's inputs from bounded sets  *)
(* and its actions run the function's code.  SpecProgram is the run of the  *)
(* whole program, main() to exit, on the devices the driver enumerates.     *)
(* Spec is their union.                                                     *)
(***************************************************************************)
EXTENDS Integers, Sequences, FiniteSets

VARIABLES
    pc,                     \* which function is running and where it stands
    queueFamilies,          \* findQueueFamilies: the device's queue family properties
    surfaceSupport,         \* driver: vkGetPhysicalDeviceSurfaceSupportKHR per family index
    i,                      \* findQueueFamilies: the loop counter
    indices,                \* findQueueFamilies: the QueueFamilyIndices being filled
    queried,                \* family indices handed to the surface-support query, in order
    availableFormats,       \* chooseSwapSurfaceFormat: its argument
    surfaceFormat,          \* createSwapChain: the chosen VkSurfaceFormatKHR
    availablePresentModes,  \* chooseSwapPresentMode: its argument
    presentMode,            \* createSwapChain: the chosen VkPresentModeKHR
    capabilities,           \* VkSurfaceCapabilitiesKHR of the device and surface
    framebufferSize,        \* window: what glfwGetFramebufferSize reports
    extent,                 \* createSwapChain: the chosen VkExtent2D
    imageCount,             \* createSwapChain: the requested image count
    enableValidationLayers, \* the build: TRUE unless NDEBUG is defined
    deviceCount,            \* driver: how many physical devices vkEnumeratePhysicalDevices reports
    devices,                \* driver: the physical devices looked at so far, in enumeration order
    verdicts,               \* isDeviceSuitable: its locals, one record per device looked at
    physicalDevice,         \* the chosen device, an index into devices; 0 is VK_NULL_HANDLE
    deviceQueues,           \* createLogicalDevice: the families requested and retrieved
    createInfo,             \* createSwapChain: the VkSwapchainCreateInfoKHR handed to the driver
    swapChain,              \* the swap chain object the driver made
    swapChainImages,        \* the image handles retrieved from the swap chain
    swapChainImageFormat,   \* the format stored with the chain
    swapChainExtent,        \* the extent stored with the chain
    windowShouldClose,      \* window: the close flag glfwWindowShouldClose reads
    surfaceInvalidated,     \* window: the framebuffer size changed after the chain was built
    polledInvalidated,      \* a main loop pass has begun on an invalidated surface
    log,                    \* the calls the program made, in order
    stderr                  \* what main printed from the exception it caught

vars == <<pc, queueFamilies, surfaceSupport, i, indices, queried,
          availableFormats, surfaceFormat, availablePresentModes, presentMode,
          capabilities, framebufferSize, extent, imageCount,
          enableValidationLayers, deviceCount, devices, verdicts, physicalDevice,
          deviceQueues, createInfo, swapChain, swapChainImages,
          swapChainImageFormat, swapChainExtent, windowShouldClose,
          surfaceInvalidated, polledInvalidated, log, stderr>>

qfVars     == <<queueFamilies, surfaceSupport, i, indices, queried>>
formatVars == <<availableFormats, surfaceFormat>>
modeVars   == <<availablePresentModes, presentMode>>
capVars    == <<capabilities, framebufferSize, extent, imageCount>>
progVars   == <<enableValidationLayers, deviceCount, devices, verdicts, physicalDevice,
                deviceQueues, createInfo, swapChain, swapChainImages,
                swapChainImageFormat, swapChainExtent, windowShouldClose,
                surfaceInvalidated, polledInvalidated, log, stderr>>

(***************************************************************************)
(* Bounds of the model.                                                     *)
(***************************************************************************)
\* longest queue family list a device reports
MaxFamilies == 3
\* longest supported-format list
MaxFormats == 3
\* longest presentation-mode list
MaxModes == 3
\* extents are drawn from 0..MaxDim and the top values of the word
MaxDim == 2
\* most physical devices the driver enumerates
MaxDevices == 2
\* most swap chains created when createSwapChain() is called again
MaxSwapChains == 2
\* TLC's integers are 32-bit signed, so the uint32_t word is scaled to
\* WordBits bits; arithmetic on it is taken modulo 2^WordBits
WordBits == 3

(***************************************************************************)
(* uint32_t                                                                 *)
(***************************************************************************)
Modulus == 2 ^ WordBits

\* std::numeric_limits<uint32_t>::max()
UINT32_MAX == Modulus - 1

\* the largest int, what a framebuffer dimension can be at most
INT_MAX == (Modulus \div 2) - 1

UInt32 == 0 .. UINT32_MAX

\* a + b in uint32_t
AddU32(a, b) == (a + b) % Modulus

\* static_cast<uint32_t>(n) of an int n
StaticCastU32(n) == n % Modulus

\* the extent dimensions the model draws from
DimValues == (0 .. MaxDim) \cup {UINT32_MAX}

(***************************************************************************)
(* std::optional<uint32_t>                                                  *)
(***************************************************************************)
nullopt == [has_value |-> FALSE, value |-> 0]

Some(v) == [has_value |-> TRUE, value |-> v]

(***************************************************************************)
(* QueueFamilyIndices and findQueueFamilies                                 *)
(***************************************************************************)
VK_QUEUE_GRAPHICS_BIT == "VK_QUEUE_GRAPHICS_BIT"
VK_QUEUE_COMPUTE_BIT == "VK_QUEUE_COMPUTE_BIT"

\* a queueFlags mask is the set of its bits
QueueFlagBits == {VK_QUEUE_GRAPHICS_BIT, VK_QUEUE_COMPUTE_BIT}

\* VkQueueFamilyProperties, the field the program reads
QueueFamilyProperties == [queueFlags : SUBSET QueueFlagBits]

\* a default-constructed QueueFamilyIndices
EmptyIndices == [graphicsFamily |-> nullopt, presentFamily |-> nullopt]

\* QueueFamilyIndices::isComplete
isComplete(ind) == ind.graphicsFamily.has_value

\* queueFamily.queueFlags & VK_QUEUE_GRAPHICS_BIT
hasGraphics(queueFamily) == VK_QUEUE_GRAPHICS_BIT \in queueFamily.queueFlags

\* the body of the for loop of findQueueFamilies up to the isComplete test:
\* the indices after family number n (0-based) has been looked at
scanFamily(ind, queueFamily, presentSupport, n) ==
    LET afterGraphics ==
            IF hasGraphics(queueFamily)
            THEN [ind EXCEPT !.graphicsFamily = Some(n)]
            ELSE ind
    IN  IF presentSupport
        THEN [afterGraphics EXCEPT !.presentFamily = Some(n)]
        ELSE afterGraphics

QFIdle ==
    /\ queueFamilies = <<>>
    /\ surfaceSupport = <<>>
    /\ i = 0
    /\ indices = EmptyIndices
    /\ queried = <<>>

\* findQueueFamilies is entered: the family list is read, indices is empty, i = 0
QFStart ==
    /\ \E n \in 0 .. MaxFamilies :
          /\ queueFamilies \in [1 .. n -> QueueFamilyProperties]
          /\ surfaceSupport \in [1 .. n -> BOOLEAN]
    /\ i = 0
    /\ indices = EmptyIndices
    /\ queried = <<>>

\* one pass of the for loop: family i is looked at, the surface-support query
\* is issued for it, and the loop breaks (and the function returns) when
\* isComplete holds, else i is incremented
FindQueueFamiliesIteration ==
    /\ pc = "findQueueFamilies"
    /\ i < Len(queueFamilies)
    /\ LET next == scanFamily(indices, queueFamilies[i + 1], surfaceSupport[i + 1], i)
       IN  /\ indices' = next
           /\ queried' = Append(queried, i)
           /\ IF isComplete(next)
              THEN pc' = "findQueueFamilies_returned" /\ i' = i
              ELSE pc' = pc /\ i' = i + 1
    /\ UNCHANGED <<queueFamilies, surfaceSupport>>
    /\ UNCHANGED <<formatVars, modeVars, capVars, progVars>>

\* the for loop runs off the end of the list and the function returns indices
FindQueueFamiliesReturn ==
    /\ pc = "findQueueFamilies"
    /\ i = Len(queueFamilies)
    /\ pc' = "findQueueFamilies_returned"
    /\ UNCHANGED <<qfVars, formatVars, modeVars, capVars, progVars>>

NextQueueFamilies == FindQueueFamiliesIteration \/ FindQueueFamiliesReturn

(***************************************************************************)
(* chooseSwapSurfaceFormat                                                  *)
(***************************************************************************)
VK_FORMAT_UNDEFINED == "VK_FORMAT_UNDEFINED"
VK_FORMAT_B8G8R8A8_SRGB == "VK_FORMAT_B8G8R8A8_SRGB"
VK_FORMAT_B8G8R8A8_UNORM == "VK_FORMAT_B8G8R8A8_UNORM"
VK_COLOR_SPACE_SRGB_NONLINEAR_KHR == "VK_COLOR_SPACE_SRGB_NONLINEAR_KHR"
VK_COLOR_SPACE_DISPLAY_P3_NONLINEAR_EXT == "VK_COLOR_SPACE_DISPLAY_P3_NONLINEAR_EXT"

\* the VkSurfaceFormatKHR pairs a driver lists
SurfaceFormats ==
    [format : {VK_FORMAT_B8G8R8A8_SRGB, VK_FORMAT_B8G8R8A8_UNORM},
     colorSpace : {VK_COLOR_SPACE_SRGB_NONLINEAR_KHR,
                   VK_COLOR_SPACE_DISPLAY_P3_NONLINEAR_EXT}]

\* what a VkSurfaceFormatKHR that was never assigned can hold
IndeterminateSurfaceFormats ==
    [format : {VK_FORMAT_UNDEFINED, VK_FORMAT_B8G8R8A8_SRGB, VK_FORMAT_B8G8R8A8_UNORM},
     colorSpace : {VK_COLOR_SPACE_SRGB_NONLINEAR_KHR,
                   VK_COLOR_SPACE_DISPLAY_P3_NONLINEAR_EXT}]

NoSurfaceFormat == [format |-> "unset", colorSpace |-> "unset"]

\* the smallest member of a non-empty set of numbers: the first index a
\* range-for loop reaches
FirstIndex(S) == CHOOSE k \in S : \A m \in S : k <= m

\* the test of the loop of chooseSwapSurfaceFormat with the color space left out
isPreferredFormatOnly(availableFormat) ==
    availableFormat.format = VK_FORMAT_B8G8R8A8_SRGB

\* the test of the loop of chooseSwapSurfaceFormat
isPreferred(availableFormat) ==
    /\ availableFormat.format = VK_FORMAT_B8G8R8A8_SRGB
    /\ availableFormat.colorSpace = VK_COLOR_SPACE_SRGB_NONLINEAR_KHR

\* chooseSwapSurfaceFormat: the values the call can return.  The loop returns
\* the first preferred entry; when there is none, control leaves the loop and
\* the function has no return statement, so the value the caller reads is
\* indeterminate.
chooseSwapSurfaceFormat(formats) ==
    LET hits == {k \in 1 .. Len(formats) : isPreferred(formats[k])}
    IN  IF hits # {}
        THEN {formats[FirstIndex(hits)]}
        ELSE IndeterminateSurfaceFormats

FormatIdle ==
    /\ availableFormats = <<>>
    /\ surfaceFormat = NoSurfaceFormat

FormatStart ==
    /\ \E n \in 0 .. MaxFormats : availableFormats \in [1 .. n -> SurfaceFormats]
    /\ surfaceFormat = NoSurfaceFormat

\* surfaceFormat = chooseSwapSurfaceFormat(swapChainSupport.formats)
ChooseSwapSurfaceFormat ==
    /\ pc = "chooseSwapSurfaceFormat"
    /\ surfaceFormat' \in chooseSwapSurfaceFormat(availableFormats)
    /\ pc' = "chooseSwapSurfaceFormat_returned"
    /\ UNCHANGED <<availableFormats, qfVars, modeVars, capVars, progVars>>

(***************************************************************************)
(* chooseSwapPresentMode                                                    *)
(***************************************************************************)
VK_PRESENT_MODE_IMMEDIATE_KHR == "VK_PRESENT_MODE_IMMEDIATE_KHR"
VK_PRESENT_MODE_MAILBOX_KHR == "VK_PRESENT_MODE_MAILBOX_KHR"
VK_PRESENT_MODE_FIFO_KHR == "VK_PRESENT_MODE_FIFO_KHR"
VK_PRESENT_MODE_FIFO_RELAXED_KHR == "VK_PRESENT_MODE_FIFO_RELAXED_KHR"

PresentModes ==
    {VK_PRESENT_MODE_IMMEDIATE_KHR, VK_PRESENT_MODE_MAILBOX_KHR,
     VK_PRESENT_MODE_FIFO_KHR, VK_PRESENT_MODE_FIFO_RELAXED_KHR}

\* chooseSwapPresentMode looking at the first entry of the list only
chooseSwapPresentModeFirstOnly(modes) ==
    IF Len(modes) > 0 /\ modes[1] = VK_PRESENT_MODE_MAILBOX_KHR
    THEN modes[1]
    ELSE VK_PRESENT_MODE_FIFO_KHR

\* chooseSwapPresentMode
chooseSwapPresentMode(modes) ==
    LET hits == {k \in 1 .. Len(modes) : modes[k] = VK_PRESENT_MODE_MAILBOX_KHR}
    IN  IF hits # {}
        THEN modes[FirstIndex(hits)]
        ELSE VK_PRESENT_MODE_FIFO_KHR

ModeIdle ==
    /\ availablePresentModes = <<>>
    /\ presentMode = "unset"

ModeStart ==
    /\ \E n \in 0 .. MaxModes : availablePresentModes \in [1 .. n -> PresentModes]
    /\ presentMode = "unset"

\* presentMode = chooseSwapPresentMode(swapChainSupport.presentModes)
ChooseSwapPresentMode ==
    /\ pc = "chooseSwapPresentMode"
    /\ presentMode' = chooseSwapPresentMode(availablePresentModes)
    /\ pc' = "chooseSwapPresentMode_returned"
    /\ UNCHANGED <<availablePresentModes, qfVars, formatVars, capVars, progVars>>

(***************************************************************************)
(* VkSurfaceCapabilitiesKHR, chooseSwapExtent and the image count           *)
(***************************************************************************)
Extent2D(w, h) == [width |-> w, height |-> h]

\* the capability records a driver reports: maxImageExtent is at least
\* minImageExtent in each dimension (the driver's guarantee std::clamp needs)
Capabilities(counts, dims) ==
    {c \in [minImageCount : counts, maxImageCount : counts,
            currentExtent : [width : dims, height : dims],
            minImageExtent : [width : dims, height : dims],
            maxImageExtent : [width : dims, height : dims]] :
        /\ c.minImageExtent.width <= c.maxImageExtent.width
        /\ c.minImageExtent.height <= c.maxImageExtent.height}

\* the record the specifications that do not read the capabilities hold
IdleCapabilities ==
    [minImageCount |-> 0, maxImageCount |-> 0,
     currentExtent |-> Extent2D(0, 0),
     minImageExtent |-> Extent2D(0, 0),
     maxImageExtent |-> Extent2D(0, 0)]

\* what glfwGetFramebufferSize can report: ints from 0 to INT_MAX
FramebufferValues == (0 .. MaxDim) \cup {INT_MAX}

\* std::clamp(v, lo, hi) for lo <= hi
clamp(v, lo, hi) == IF v < lo THEN lo ELSE IF hi < v THEN hi ELSE v

\* chooseSwapExtent deciding by currentExtent.height
chooseSwapExtentByHeight(caps, fb) ==
    IF caps.currentExtent.height # UINT32_MAX
    THEN caps.currentExtent
    ELSE Extent2D(clamp(StaticCastU32(fb.width),
                        caps.minImageExtent.width, caps.maxImageExtent.width),
                  clamp(StaticCastU32(fb.height),
                        caps.minImageExtent.height, caps.maxImageExtent.height))

\* chooseSwapExtent clamping the height into the bounds of the width
chooseSwapExtentWidthBounds(caps, fb) ==
    IF caps.currentExtent.width # UINT32_MAX
    THEN caps.currentExtent
    ELSE Extent2D(clamp(StaticCastU32(fb.width),
                        caps.minImageExtent.width, caps.maxImageExtent.width),
                  clamp(StaticCastU32(fb.height),
                        caps.minImageExtent.width, caps.maxImageExtent.width))

\* chooseSwapExtent taking currentExtent only when neither dimension is the
\* maximum
chooseSwapExtentBothExplicit(caps, fb) ==
    IF caps.currentExtent.width # UINT32_MAX /\ caps.currentExtent.height # UINT32_MAX
    THEN caps.currentExtent
    ELSE Extent2D(clamp(StaticCastU32(fb.width),
                        caps.minImageExtent.width, caps.maxImageExtent.width),
                  clamp(StaticCastU32(fb.height),
                        caps.minImageExtent.height, caps.maxImageExtent.height))

\* chooseSwapExtent; fb is what glfwGetFramebufferSize(window, ...) stores
chooseSwapExtent(caps, fb) ==
    IF caps.currentExtent.width # UINT32_MAX
    THEN caps.currentExtent
    ELSE Extent2D(clamp(StaticCastU32(fb.width),
                        caps.minImageExtent.width, caps.maxImageExtent.width),
                  clamp(StaticCastU32(fb.height),
                        caps.minImageExtent.height, caps.maxImageExtent.height))

\* the image count of createSwapChain taking a maxImageCount of 0 as a limit
requestedImageCountZeroLimits(caps) ==
    LET count == AddU32(caps.minImageCount, 1)
    IN  IF count > caps.maxImageCount THEN caps.maxImageCount ELSE count

\* createSwapChain: the image count it puts into createInfo.minImageCount
requestedImageCount(caps) ==
    LET count == AddU32(caps.minImageCount, 1)
    IN  IF caps.maxImageCount > 0 /\ count > caps.maxImageCount
        THEN caps.maxImageCount
        ELSE count

CapIdle ==
    /\ capabilities = IdleCapabilities
    /\ framebufferSize = Extent2D(0, 0)
    /\ extent = Extent2D(0, 0)
    /\ imageCount = 0

\* chooseSwapExtent is entered: any extents, any framebuffer size
ExtentStart ==
    /\ capabilities \in Capabilities({0}, DimValues)
    /\ framebufferSize \in [width : FramebufferValues, height : FramebufferValues]
    /\ extent = Extent2D(0, 0)
    /\ imageCount = 0

\* the image count is computed: any minImageCount and maxImageCount
ImageCountStart ==
    /\ capabilities \in Capabilities(UInt32, {0})
    /\ framebufferSize = Extent2D(0, 0)
    /\ extent = Extent2D(0, 0)
    /\ imageCount = 0

\* extent = chooseSwapExtent(swapChainSupport.capabilities)
ChooseSwapExtent ==
    /\ pc = "chooseSwapExtent"
    /\ extent' = chooseSwapExtent(capabilities, framebufferSize)
    /\ pc' = "chooseSwapExtent_returned"
    /\ UNCHANGED <<capabilities, framebufferSize, imageCount>>
    /\ UNCHANGED <<qfVars, formatVars, modeVars, progVars>>

\* imageCount = minImageCount + 1, limited by a nonzero maxImageCount
RequestImageCount ==
    /\ pc = "imageCount"
    /\ imageCount' = requestedImageCount(capabilities)
    /\ pc' = "imageCount_computed"
    /\ UNCHANGED <<capabilities, framebufferSize, extent>>
    /\ UNCHANGED <<qfVars, formatVars, modeVars, progVars>>

(***************************************************************************)
(* The program: physical devices, isDeviceSuitable, the logical device,     *)
(* createSwapChain, the main loop and cleanup                               *)
(***************************************************************************)
VK_KHR_SWAPCHAIN_EXTENSION_NAME == "VK_KHR_swapchain"
VK_EXT_OTHER_EXTENSION_NAME == "VK_EXT_other"

\* const std::vector<const char*> deviceExtensions
deviceExtensions == {VK_KHR_SWAPCHAIN_EXTENSION_NAME}

GraphicsFamily == [queueFlags |-> {VK_QUEUE_GRAPHICS_BIT}]
OtherFamily == [queueFlags |-> {}]

\* the queue family lists, with the surface support of each family, that the
\* devices of the program run have: graphics and present in one family, a
\* graphics family that cannot present, a presenting family before the
\* graphics family, and no graphics family at all
DeviceFamilies ==
    { [queueFamilies |-> <<GraphicsFamily>>, surfaceSupport |-> <<TRUE>>],
      [queueFamilies |-> <<GraphicsFamily>>, surfaceSupport |-> <<FALSE>>],
      [queueFamilies |-> <<OtherFamily, GraphicsFamily>>, surfaceSupport |-> <<TRUE, FALSE>>],
      [queueFamilies |-> <<OtherFamily>>, surfaceSupport |-> <<TRUE>>] }

VK_SURFACE_TRANSFORM_IDENTITY_BIT_KHR == "VK_SURFACE_TRANSFORM_IDENTITY_BIT_KHR"
VK_SURFACE_TRANSFORM_ROTATE_90_BIT_KHR == "VK_SURFACE_TRANSFORM_ROTATE_90_BIT_KHR"

\* the transforms a surface can report as its current one
SurfaceTransforms ==
    {VK_SURFACE_TRANSFORM_IDENTITY_BIT_KHR, VK_SURFACE_TRANSFORM_ROTATE_90_BIT_KHR}

\* the capability record of the devices of the program run: the application
\* chooses the extent, and two to four images
ProgramCapabilities ==
    [minImageCount |-> 2, maxImageCount |-> 4,
     currentExtent |-> Extent2D(UINT32_MAX, UINT32_MAX),
     minImageExtent |-> Extent2D(1, 1),
     maxImageExtent |-> Extent2D(2, 2),
     currentTransform |-> VK_SURFACE_TRANSFORM_IDENTITY_BIT_KHR]

\* the surface formats a device of the program run lists: none, the preferred
\* pair, or one other pair
DeviceFormats ==
    {<<>>,
     <<[format |-> VK_FORMAT_B8G8R8A8_SRGB,
        colorSpace |-> VK_COLOR_SPACE_SRGB_NONLINEAR_KHR]>>,
     <<[format |-> VK_FORMAT_B8G8R8A8_UNORM,
        colorSpace |-> VK_COLOR_SPACE_SRGB_NONLINEAR_KHR]>>}

\* the presentation modes a device of the program run lists
DeviceModes == {<<>>, <<VK_PRESENT_MODE_FIFO_KHR>>}

\* a physical device with the surface: what the driver answers about it.
\* The lists of a device without the swap-chain extension are never read, so
\* one value is taken for them.
PhysicalDevices ==
    { [queueFamilies |-> f.queueFamilies,
       surfaceSupport |-> f.surfaceSupport,
       extensions |-> {VK_EXT_OTHER_EXTENSION_NAME, VK_KHR_SWAPCHAIN_EXTENSION_NAME},
       formats |-> fm,
       presentModes |-> m,
       capabilities |-> ProgramCapabilities] :
        f \in DeviceFamilies, fm \in DeviceFormats, m \in DeviceModes }
    \cup
    { [queueFamilies |-> f.queueFamilies,
       surfaceSupport |-> f.surfaceSupport,
       extensions |-> {VK_EXT_OTHER_EXTENSION_NAME},
       formats |-> <<[format |-> VK_FORMAT_B8G8R8A8_SRGB,
                      colorSpace |-> VK_COLOR_SPACE_SRGB_NONLINEAR_KHR]>>,
       presentModes |-> <<VK_PRESENT_MODE_FIFO_KHR>>,
       capabilities |-> ProgramCapabilities] :
        f \in DeviceFamilies }

\* the framebuffer sizes of the window of the program run
WindowSizes == {Extent2D(2, 1), Extent2D(1, 2)}

\* findQueueFamilies from family n on, with the indices recorded so far
RECURSIVE scanFrom(_, _, _, _)
scanFrom(families, support, n, ind) ==
    IF n >= Len(families)
    THEN ind
    ELSE LET next == scanFamily(ind, families[n + 1], support[n + 1], n)
         IN  IF isComplete(next)
             THEN next
             ELSE scanFrom(families, support, n + 1, next)

\* findQueueFamilies(device): the indices it returns
findQueueFamilies(device) ==
    scanFrom(device.queueFamilies, device.surfaceSupport, 0, EmptyIndices)

\* checkDeviceExtensionSupport as the placeholder of lines 507-509 has it
checkDeviceExtensionSupportStub(device) == TRUE

\* checkDeviceExtensionSupport (the definition of lines 512-526, which
\* supersedes the placeholder before it): every available extension is erased
\* from the set of required names, and the set must end up empty
checkDeviceExtensionSupport(device) ==
    (deviceExtensions \ device.extensions) = {}

\* querySwapChainSupport(device)
querySwapChainSupport(device) ==
    [capabilities |-> device.capabilities,
     formats |-> device.formats,
     presentModes |-> device.presentModes]

\* swapChainAdequate with one non-empty list being enough
swapChainAdequateEither(swapChainSupport) ==
    swapChainSupport.formats # <<>> \/ swapChainSupport.presentModes # <<>>

\* isDeviceSuitable: !formats.empty() && !presentModes.empty()
swapChainAdequate(swapChainSupport) ==
    swapChainSupport.formats # <<>> /\ swapChainSupport.presentModes # <<>>

\* isDeviceSuitable(device): its locals and its result
isDeviceSuitable(device) ==
    LET ind == findQueueFamilies(device)
        extensionsSupported == checkDeviceExtensionSupport(device)
        adequate ==
            IF extensionsSupported
            THEN swapChainAdequate(querySwapChainSupport(device))
            ELSE FALSE
    IN  [indices |-> ind,
         extensionsSupported |-> extensionsSupported,
         swapChainAdequate |-> adequate,
         suitable |-> isComplete(ind) /\ extensionsSupported /\ adequate]

\* an entry of the log: the call, the device it was made on (0: none) and
\* whether it succeeded
Call(op, dev, ok) == [op |-> op, dev |-> dev, ok |-> ok]

\* the calls isDeviceSuitable makes on device number d
isDeviceSuitableCalls(device, d) ==
    <<Call("findQueueFamilies", d, TRUE),
      Call("checkDeviceExtensionSupport", d, TRUE)>>
    \o (IF checkDeviceExtensionSupport(device)
        THEN <<Call("querySwapChainSupport", d, TRUE)>>
        ELSE <<>>)

VK_SHARING_MODE_EXCLUSIVE == "VK_SHARING_MODE_EXCLUSIVE"
VK_SHARING_MODE_CONCURRENT == "VK_SHARING_MODE_CONCURRENT"

\* the sharing fields of createInfo with the test turned round
sharingModeInverted(ind) ==
    IF ind.graphicsFamily = ind.presentFamily
    THEN [imageSharingMode |-> VK_SHARING_MODE_CONCURRENT,
          queueFamilyIndexCount |-> 2,
          pQueueFamilyIndices |-> <<ind.graphicsFamily.value, ind.presentFamily.value>>]
    ELSE [imageSharingMode |-> VK_SHARING_MODE_EXCLUSIVE,
          queueFamilyIndexCount |-> 0,
          pQueueFamilyIndices |-> <<>>]

\* createSwapChain: the sharing fields of createInfo
sharingMode(ind) ==
    IF ind.graphicsFamily # ind.presentFamily
    THEN [imageSharingMode |-> VK_SHARING_MODE_CONCURRENT,
          queueFamilyIndexCount |-> 2,
          pQueueFamilyIndices |-> <<ind.graphicsFamily.value, ind.presentFamily.value>>]
    ELSE [imageSharingMode |-> VK_SHARING_MODE_EXCLUSIVE,
          queueFamilyIndexCount |-> 0,
          pQueueFamilyIndices |-> <<>>]

\* createInfo before createSwapChain fills it
NoCreateInfo ==
    [minImageCount |-> 0,
     imageFormat |-> "unset",
     imageColorSpace |-> "unset",
     imageExtent |-> Extent2D(0, 0),
     presentMode |-> "unset",
     imageSharingMode |-> "unset",
     queueFamilyIndexCount |-> 0,
     pQueueFamilyIndices |-> <<>>,
     imageArrayLayers |-> 0,
     imageUsage |-> "unset",
     preTransform |-> "unset",
     compositeAlpha |-> "unset",
     clipped |-> FALSE,
     oldSwapChain |-> "VK_NULL_HANDLE"]

\* no logical device yet
NoDeviceQueues == [requested |-> {}, graphicsQueue |-> nullopt, presentQueue |-> nullopt]

\* VkSwapchainKHR swapChain before the create call
NoSwapChain == [created |-> FALSE, imageCount |-> 0]

ProgramIdle ==
    /\ enableValidationLayers = FALSE
    /\ deviceCount = 0
    /\ devices = <<>>
    /\ verdicts = <<>>
    /\ physicalDevice = 0
    /\ deviceQueues = NoDeviceQueues
    /\ createInfo = NoCreateInfo
    /\ swapChain = NoSwapChain
    /\ swapChainImages = <<>>
    /\ swapChainImageFormat = "unset"
    /\ swapChainExtent = Extent2D(0, 0)
    /\ windowShouldClose = FALSE
    /\ surfaceInvalidated = FALSE
    /\ polledInvalidated = FALSE
    /\ log = <<>>
    /\ stderr = ""

\* the steps with createSwapChain() going from its probe straight to createInfo
nextStepSkipSelect(p) ==
    CASE p = "initWindow" -> "createInstance"
      [] p = "createInstance" -> "setupDebugMessenger"
      [] p = "setupDebugMessenger" -> "createSurface"
      [] p = "createSurface" -> "pickPhysicalDevice"
      [] p = "pickPhysicalDevice" -> "createLogicalDevice"
      [] p = "createLogicalDevice" -> "createSwapChain"
      [] p = "createSwapChain" -> "createSwapChain_createInfo"
      [] p = "createSwapChain_select" -> "createSwapChain_createInfo"
      [] p = "createSwapChain_createInfo" -> "createSwapChain_create"
      [] p = "createSwapChain_create" -> "createSwapChain_images"
      [] p = "createSwapChain_images" -> "mainLoop"
      [] p = "mainLoop" -> "cleanup"
      [] p = "cleanup" -> "EXIT_SUCCESS"
      [] OTHER -> p

\* the steps with the create call of createSwapChain() made before createInfo
\* is filled
nextStepCreateFirst(p) ==
    CASE p = "initWindow" -> "createInstance"
      [] p = "createInstance" -> "setupDebugMessenger"
      [] p = "setupDebugMessenger" -> "createSurface"
      [] p = "createSurface" -> "pickPhysicalDevice"
      [] p = "pickPhysicalDevice" -> "createLogicalDevice"
      [] p = "createLogicalDevice" -> "createSwapChain"
      [] p = "createSwapChain" -> "createSwapChain_select"
      [] p = "createSwapChain_select" -> "createSwapChain_create"
      [] p = "createSwapChain_create" -> "createSwapChain_createInfo"
      [] p = "createSwapChain_createInfo" -> "createSwapChain_images"
      [] p = "createSwapChain_images" -> "mainLoop"
      [] p = "mainLoop" -> "cleanup"
      [] p = "cleanup" -> "EXIT_SUCCESS"
      [] OTHER -> p

\* run(), initVulkan() and createSwapChain() statement by statement: the step
\* that follows step p when p does not throw
nextStep(p) ==
    CASE p = "initWindow" -> "createInstance"
      [] p = "createInstance" -> "setupDebugMessenger"
      [] p = "setupDebugMessenger" -> "createSurface"
      [] p = "createSurface" -> "pickPhysicalDevice"
      [] p = "pickPhysicalDevice" -> "createLogicalDevice"
      [] p = "createLogicalDevice" -> "createSwapChain"
      [] p = "createSwapChain" -> "createSwapChain_select"
      [] p = "createSwapChain_select" -> "createSwapChain_createInfo"
      [] p = "createSwapChain_createInfo" -> "createSwapChain_create"
      [] p = "createSwapChain_create" -> "createSwapChain_images"
      [] p = "createSwapChain_images" -> "mainLoop"
      [] p = "mainLoop" -> "cleanup"
      [] p = "cleanup" -> "EXIT_SUCCESS"
      [] OTHER -> p

\* where step p goes when it throws, had run() called cleanup() on the way out
thrownThroughCleanup(p) == "cleanup"

\* where step p goes when it throws: nothing in initVulkan() or run() catches,
\* so main() catches, prints and returns EXIT_FAILURE
thrown(p) == "EXIT_FAILURE"

VK_SUCCESS == "VK_SUCCESS"
VK_ERROR_INITIALIZATION_FAILED == "VK_ERROR_INITIALIZATION_FAILED"

\* what a create call of the driver can answer
VkResults == {VK_SUCCESS, VK_ERROR_INITIALIZATION_FAILED}

\* the test of a create call's result with the result ignored
succeededIgnored(result) == TRUE

\* the test of a create call's result: result != VK_SUCCESS throws
succeeded(result) == result = VK_SUCCESS

\* the calls of cleanup() with the logical device destroyed first
cleanupCallsDeviceFirst(validation) ==
    <<Call("vkDestroyDevice", 0, TRUE), Call("vkDestroySwapchainKHR", 0, TRUE)>>
    \o (IF validation THEN <<Call("DestroyDebugUtilsMessengerEXT", 0, TRUE)>> ELSE <<>>)
    \o <<Call("vkDestroySurfaceKHR", 0, TRUE),
         Call("vkDestroyInstance", 0, TRUE),
         Call("glfwDestroyWindow", 0, TRUE),
         Call("glfwTerminate", 0, TRUE)>>

\* the calls of cleanup() with the debug messenger destroyed in every build
cleanupCallsMessengerAlways(validation) ==
    <<Call("vkDestroySwapchainKHR", 0, TRUE),
      Call("vkDestroyDevice", 0, TRUE),
      Call("DestroyDebugUtilsMessengerEXT", 0, TRUE),
      Call("vkDestroySurfaceKHR", 0, TRUE),
      Call("vkDestroyInstance", 0, TRUE),
      Call("glfwDestroyWindow", 0, TRUE),
      Call("glfwTerminate", 0, TRUE)>>

\* the calls of cleanup(), in its order
cleanupCalls(validation) ==
    <<Call("vkDestroySwapchainKHR", 0, TRUE), Call("vkDestroyDevice", 0, TRUE)>>
    \o (IF validation THEN <<Call("DestroyDebugUtilsMessengerEXT", 0, TRUE)>> ELSE <<>>)
    \o <<Call("vkDestroySurfaceKHR", 0, TRUE),
         Call("vkDestroyInstance", 0, TRUE),
         Call("glfwDestroyWindow", 0, TRUE),
         Call("glfwTerminate", 0, TRUE)>>

\* the program starts: main() constructs the application and calls run()
ProgramStart ==
    /\ enableValidationLayers \in BOOLEAN
    /\ deviceCount \in 0 .. MaxDevices
    /\ devices = <<>>
    /\ verdicts = <<>>
    /\ physicalDevice = 0
    /\ deviceQueues = NoDeviceQueues
    /\ createInfo = NoCreateInfo
    /\ swapChain = NoSwapChain
    /\ swapChainImages = <<>>
    /\ swapChainImageFormat = "unset"
    /\ swapChainExtent = Extent2D(0, 0)
    /\ windowShouldClose = FALSE
    /\ surfaceInvalidated = FALSE
    /\ polledInvalidated = FALSE
    /\ log = <<>>
    /\ stderr = ""

\* what every step of the program leaves alone unless it says otherwise
selectionVars == <<availableFormats, surfaceFormat, availablePresentModes, presentMode,
                   capabilities, extent, imageCount>>
scanVars == <<queueFamilies, surfaceSupport, i, queried>>
windowVars == <<framebufferSize, windowShouldClose, surfaceInvalidated, polledInvalidated>>
buildVars == <<enableValidationLayers, deviceCount>>
chainVars == <<swapChain, swapChainImages, swapChainImageFormat, swapChainExtent>>

\* initWindow()
InitWindow ==
    /\ pc = "initWindow"
    /\ log' = log \o <<Call("glfwInit", 0, TRUE), Call("glfwCreateWindow", 0, TRUE)>>
    /\ pc' = nextStep(pc)
    /\ UNCHANGED <<selectionVars, scanVars, windowVars, buildVars, indices, devices,
                   verdicts, physicalDevice, deviceQueues, createInfo, chainVars,
                   stderr>>

\* a step that only makes one create call and throws message when it fails
CreateStep(step, op, message) ==
    /\ pc = step
    /\ \E result \in VkResults :
          /\ log' = Append(log, Call(op, 0, succeeded(result)))
          /\ IF succeeded(result)
             THEN pc' = nextStep(pc) /\ stderr' = stderr
             ELSE pc' = thrown(pc) /\ stderr' = message
    /\ UNCHANGED <<selectionVars, scanVars, windowVars, buildVars, indices, devices,
                   verdicts, physicalDevice, deviceQueues, createInfo, chainVars>>

\* createInstance(); a missing validation layer is taken with the failures of
\* vkCreateInstance
CreateInstance ==
    CreateStep("createInstance", "vkCreateInstance", "failed to create instance!")

\* setupDebugMessenger(): nothing without validation layers
SetupDebugMessenger ==
    IF enableValidationLayers
    THEN CreateStep("setupDebugMessenger", "CreateDebugUtilsMessengerEXT",
                    "failed to set up debug messenger!")
    ELSE /\ pc = "setupDebugMessenger"
         /\ pc' = nextStep(pc)
         /\ UNCHANGED <<selectionVars, scanVars, windowVars, buildVars, indices, devices,
                        verdicts, physicalDevice, deviceQueues, createInfo,
                        chainVars, log, stderr>>

\* createSurface()
CreateSurface ==
    CreateStep("createSurface", "glfwCreateWindowSurface",
               "failed to create a window surface!")

\* pickPhysicalDevice(): one pass of its loop.  The next device of the
\* enumeration is looked at; the first suitable one is kept and ends the loop.
PickPhysicalDeviceIteration ==
    /\ pc = "pickPhysicalDevice"
    /\ Len(devices) < deviceCount
    /\ \E device \in PhysicalDevices :
          LET d == Len(devices) + 1
              verdict == isDeviceSuitable(device)
          IN  /\ devices' = Append(devices, device)
              /\ verdicts' = Append(verdicts, verdict)
              /\ log' = log \o isDeviceSuitableCalls(device, d)
              /\ IF verdict.suitable
                 THEN physicalDevice' = d /\ pc' = nextStep(pc)
                 ELSE physicalDevice' = physicalDevice /\ pc' = pc
    /\ UNCHANGED <<selectionVars, scanVars, windowVars, buildVars, indices,
                   deviceQueues, createInfo, chainVars, stderr>>

\* pickPhysicalDevice(): no device at all, or the loop ended with
\* physicalDevice still VK_NULL_HANDLE
PickPhysicalDeviceNone ==
    /\ pc = "pickPhysicalDevice"
    /\ Len(devices) = deviceCount
    /\ pc' = thrown(pc)
    /\ stderr' = IF deviceCount = 0
                 THEN "failed to find GPUs with Vulkan support!"
                 ELSE "failed to find a suitable GPU!"
    /\ UNCHANGED <<selectionVars, scanVars, windowVars, buildVars, indices, devices,
                   verdicts, physicalDevice, deviceQueues, createInfo, chainVars,
                   log>>

\* createLogicalDevice(): the indices are resolved again and both are read
\* with value(), which throws on an empty optional; one queue is requested, of
\* the graphics family; both queues are retrieved
CreateLogicalDevice ==
    /\ pc = "createLogicalDevice"
    /\ LET ind == findQueueFamilies(devices[physicalDevice])
           resolved == Call("findQueueFamilies", physicalDevice, TRUE)
       IN  /\ indices' = ind
           /\ IF ~(ind.graphicsFamily.has_value /\ ind.presentFamily.has_value)
              THEN /\ pc' = thrown(pc)
                   /\ stderr' = "bad optional access"
                   /\ log' = Append(log, resolved)
                   /\ deviceQueues' = deviceQueues
              ELSE \E result \in VkResults :
                      /\ log' = log \o <<resolved,
                                         Call("vkCreateDevice", physicalDevice,
                                              succeeded(result))>>
                      /\ IF succeeded(result)
                         THEN /\ pc' = nextStep(pc)
                              /\ stderr' = stderr
                              /\ deviceQueues' =
                                    [requested |-> {ind.graphicsFamily.value},
                                     graphicsQueue |-> ind.graphicsFamily,
                                     presentQueue |-> ind.presentFamily]
                         ELSE /\ pc' = thrown(pc)
                              /\ stderr' = "failed to create a logical device!"
                              /\ deviceQueues' = deviceQueues
    /\ UNCHANGED <<selectionVars, scanVars, windowVars, buildVars, devices, verdicts,
                   physicalDevice, createInfo, chainVars>>

\* createSwapChain(): swapChainSupport = querySwapChainSupport(physicalDevice)
CreateSwapChainProbe ==
    /\ pc = "createSwapChain"
    /\ LET swapChainSupport == querySwapChainSupport(devices[physicalDevice])
       IN  /\ capabilities' = swapChainSupport.capabilities
           /\ availableFormats' = swapChainSupport.formats
           /\ availablePresentModes' = swapChainSupport.presentModes
    /\ log' = Append(log, Call("querySwapChainSupport", physicalDevice, TRUE))
    /\ pc' = nextStep(pc)
    /\ UNCHANGED <<surfaceFormat, presentMode, extent, imageCount>>
    /\ UNCHANGED <<scanVars, windowVars, buildVars, indices, devices, verdicts,
                   physicalDevice, deviceQueues, createInfo, chainVars, stderr>>

\* the three selections and the image count, from what the probe stored
selectConfiguration ==
    /\ surfaceFormat' \in chooseSwapSurfaceFormat(availableFormats)
    /\ presentMode' = chooseSwapPresentMode(availablePresentModes)
    /\ extent' = chooseSwapExtent(capabilities, framebufferSize)
    /\ imageCount' = requestedImageCount(capabilities)

\* createSwapChain(): the three selections and the image count
CreateSwapChainSelect ==
    /\ pc = "createSwapChain_select"
    /\ selectConfiguration
    /\ log' = log \o <<Call("chooseSwapSurfaceFormat", 0, TRUE),
                       Call("chooseSwapPresentMode", 0, TRUE),
                       Call("chooseSwapExtent", 0, TRUE)>>
    /\ pc' = nextStep(pc)
    /\ UNCHANGED <<availableFormats, availablePresentModes, capabilities>>
    /\ UNCHANGED <<scanVars, windowVars, buildVars, indices, devices, verdicts,
                   physicalDevice, deviceQueues, createInfo, chainVars, stderr>>

\* createInfo.preTransform with the identity asked for whatever the surface
\* reports
preTransformIdentity(caps) == VK_SURFACE_TRANSFORM_IDENTITY_BIT_KHR

\* createInfo.preTransform
preTransform(caps) == caps.currentTransform

\* the VkSwapchainCreateInfoKHR that createSwapChain() fills from the
\* capabilities, the selections, the image count and the resolved indices
swapchainCreateInfo(caps, format, mode, size, count, ind) ==
    LET sharing == sharingMode(ind)
    IN  [minImageCount |-> count,
         imageFormat |-> format.format,
         imageColorSpace |-> format.colorSpace,
         imageExtent |-> size,
         imageArrayLayers |-> 1,
         imageUsage |-> "VK_IMAGE_USAGE_COLOR_ATTACHMENT_BIT",
         imageSharingMode |-> sharing.imageSharingMode,
         queueFamilyIndexCount |-> sharing.queueFamilyIndexCount,
         pQueueFamilyIndices |-> sharing.pQueueFamilyIndices,
         preTransform |-> preTransform(caps),
         compositeAlpha |-> "VK_COMPOSITE_ALPHA_OPAQUE_BIT_KHR",
         presentMode |-> mode,
         clipped |-> TRUE,
         oldSwapChain |-> "VK_NULL_HANDLE"]

\* createSwapChain(): createInfo is filled; the indices are resolved once
\* more for the sharing mode
CreateSwapChainCreateInfo ==
    /\ pc = "createSwapChain_createInfo"
    /\ indices' = findQueueFamilies(devices[physicalDevice])
    /\ createInfo' = swapchainCreateInfo(capabilities, surfaceFormat, presentMode,
                                         extent, imageCount, indices')
    /\ log' = Append(log, Call("findQueueFamilies", physicalDevice, TRUE))
    /\ pc' = nextStep(pc)
    /\ UNCHANGED <<selectionVars, scanVars, windowVars, buildVars, devices, verdicts,
                   physicalDevice, deviceQueues, chainVars, stderr>>

\* createInfo is about to be filled: any current transform, selections, image
\* count and pair of resolved indices
CreateInfoStart ==
    /\ capabilities \in {[ProgramCapabilities EXCEPT !.currentTransform = t] :
                            t \in SurfaceTransforms}
    /\ framebufferSize = Extent2D(0, 0)
    /\ availableFormats = <<>>
    /\ surfaceFormat \in SurfaceFormats
    /\ availablePresentModes = <<>>
    /\ presentMode \in PresentModes
    /\ extent \in WindowSizes
    /\ imageCount \in 1 .. 2
    /\ indices \in {[graphicsFamily |-> Some(g), presentFamily |-> Some(p)] :
                       g \in 0 .. 1, p \in 0 .. 1}
    /\ queueFamilies = <<>>
    /\ surfaceSupport = <<>>
    /\ i = 0
    /\ queried = <<>>

\* lines 308-361 of createSwapChain() on their own
FillCreateInfo ==
    /\ pc = "createInfo"
    /\ createInfo' = swapchainCreateInfo(capabilities, surfaceFormat, presentMode,
                                         extent, imageCount, indices)
    /\ pc' = "createInfo_filled"
    /\ UNCHANGED <<selectionVars, scanVars, windowVars, buildVars, indices, devices,
                   verdicts, physicalDevice, deviceQueues, chainVars, log, stderr>>

\* the image counts the driver can make for a chain: the count asked for, or
\* more, up to its limit
driverImageCounts(caps, requested) ==
    requested .. (IF caps.maxImageCount > 0 THEN caps.maxImageCount ELSE requested + 1)

\* createSwapChain(): the create call; a result other than VK_SUCCESS throws,
\* and main() catches, prints and returns EXIT_FAILURE
CreateSwapChainCreate ==
    /\ pc = "createSwapChain_create"
    /\ \E result \in VkResults :
          /\ log' = Append(log, Call("vkCreateSwapchainKHR", physicalDevice,
                                     result = VK_SUCCESS))
          /\ IF succeeded(result)
             THEN /\ pc' = nextStep(pc)
                  /\ stderr' = stderr
                  /\ \E made \in driverImageCounts(capabilities, createInfo.minImageCount) :
                        swapChain' = [created |-> result = VK_SUCCESS, imageCount |-> made]
             ELSE /\ pc' = thrown(pc)
                  /\ stderr' = "failed to create swap chain!"
                  /\ swapChain' = swapChain
    /\ UNCHANGED <<selectionVars, scanVars, windowVars, buildVars, indices, devices,
                   verdicts, physicalDevice, deviceQueues, createInfo, swapChainImages,
                   swapChainImageFormat, swapChainExtent>>

\* the count the first vkGetSwapchainImagesKHR call leaves in imageCount, had
\* the call not been made
retrievedImageCountRequested(chain, requested) == requested

\* the count the first vkGetSwapchainImagesKHR call writes to imageCount
retrievedImageCount(chain, requested) == chain.imageCount

\* createSwapChain(): the count is read into imageCount, the images are
\* retrieved, and the format and the extent are stored
CreateSwapChainImages ==
    /\ pc = "createSwapChain_images"
    /\ imageCount' = retrievedImageCount(swapChain, imageCount)
    /\ swapChainImages' = [k \in 1 .. imageCount' |-> k]
    /\ swapChainImageFormat' = surfaceFormat.format
    /\ swapChainExtent' = extent
    /\ log' = log \o <<Call("vkGetSwapchainImagesKHR", physicalDevice, TRUE),
                       Call("vkGetSwapchainImagesKHR", physicalDevice, TRUE)>>
    /\ pc' = nextStep(pc)
    /\ UNCHANGED <<availableFormats, surfaceFormat, availablePresentModes, presentMode,
                   capabilities, extent>>
    /\ UNCHANGED <<scanVars, windowVars, buildVars, indices, devices, verdicts,
                   physicalDevice, deviceQueues, createInfo, swapChain, stderr>>

\* mainLoop(): one pass, glfwPollEvents().  The window system may have sent
\* nothing, a close request, or a new framebuffer size (the window is not
\* resizable by the user, but its framebuffer follows the monitor it is on),
\* which invalidates the surface the chain was built for.  The program has no
\* handler for the latter.  The first invalidation is entered in the log.
MainLoopIteration ==
    /\ pc = "mainLoop"
    /\ ~windowShouldClose
    /\ polledInvalidated' = (polledInvalidated \/ surfaceInvalidated)
    /\ \E event \in {"none", "close", "resize"} :
          /\ windowShouldClose' = (event = "close")
          /\ IF event = "resize"
             THEN /\ framebufferSize' \in WindowSizes \ {framebufferSize}
                  /\ surfaceInvalidated' = TRUE
                  /\ log' = IF surfaceInvalidated
                            THEN log
                            ELSE Append(log, Call("framebufferSizeChanged", 0, TRUE))
             ELSE UNCHANGED <<framebufferSize, surfaceInvalidated, log>>
    /\ pc' = pc
    /\ UNCHANGED <<selectionVars, scanVars, buildVars, indices, devices, verdicts,
                   physicalDevice, deviceQueues, createInfo, chainVars, stderr>>

\* mainLoop(): glfwWindowShouldClose(window) holds and the loop ends
MainLoopExit ==
    /\ pc = "mainLoop"
    /\ windowShouldClose
    /\ pc' = nextStep(pc)
    /\ UNCHANGED <<selectionVars, scanVars, windowVars, buildVars, indices, devices,
                   verdicts, physicalDevice, deviceQueues, createInfo, chainVars,
                   log, stderr>>

\* cleanup(), then run() and main() return
Cleanup ==
    /\ pc = "cleanup"
    /\ log' = log \o cleanupCalls(enableValidationLayers)
    /\ pc' = nextStep(pc)
    /\ UNCHANGED <<selectionVars, scanVars, windowVars, buildVars, indices, devices,
                   verdicts, physicalDevice, deviceQueues, createInfo, chainVars,
                   stderr>>

NextProgram ==
    \/ InitWindow
    \/ CreateInstance
    \/ SetupDebugMessenger
    \/ CreateSurface
    \/ PickPhysicalDeviceIteration
    \/ PickPhysicalDeviceNone
    \/ CreateLogicalDevice
    \/ CreateSwapChainProbe
    \/ CreateSwapChainSelect
    \/ CreateSwapChainCreateInfo
    \/ CreateSwapChainCreate
    \/ CreateSwapChainImages
    \/ MainLoopIteration
    \/ MainLoopExit
    \/ Cleanup

\* the probe and the selections of createSwapChain() run once more, after the
\* chain was built, on the surface as it was when the chain was built
ReprobeAndSelect ==
    /\ pc = "mainLoop"
    /\ ~surfaceInvalidated
    /\ LET swapChainSupport == querySwapChainSupport(devices[physicalDevice])
       IN  /\ capabilities' = swapChainSupport.capabilities
           /\ availableFormats' = swapChainSupport.formats
           /\ availablePresentModes' = swapChainSupport.presentModes
           /\ surfaceFormat' \in chooseSwapSurfaceFormat(swapChainSupport.formats)
           /\ presentMode' = chooseSwapPresentMode(swapChainSupport.presentModes)
           /\ extent' = chooseSwapExtent(swapChainSupport.capabilities, framebufferSize)
           /\ imageCount' = requestedImageCount(swapChainSupport.capabilities)
    /\ log' = log \o <<Call("querySwapChainSupport", physicalDevice, TRUE),
                       Call("chooseSwapSurfaceFormat", 0, TRUE),
                       Call("chooseSwapPresentMode", 0, TRUE),
                       Call("chooseSwapExtent", 0, TRUE)>>
    /\ pc' = "createSwapChain_reselected"
    /\ UNCHANGED <<scanVars, windowVars, buildVars, indices, devices, verdicts,
                   physicalDevice, deviceQueues, createInfo, chainVars, stderr>>

\* createSwapChain() called again, while the first chain exists, for a surface
\* that was invalidated: the function then runs as it does the first time
RecreateSwapChain ==
    /\ pc = "mainLoop"
    /\ surfaceInvalidated
    /\ Len(SelectSeq(log, LAMBDA c : c.op = "vkCreateSwapchainKHR")) < MaxSwapChains
    /\ pc' = "createSwapChain"
    /\ surfaceInvalidated' = FALSE
    /\ polledInvalidated' = FALSE
    /\ UNCHANGED <<selectionVars, scanVars, buildVars, framebufferSize,
                   windowShouldClose, indices, devices, verdicts, physicalDevice,
                   deviceQueues, createInfo, chainVars, log, stderr>>

(***************************************************************************)
(* Specifications                                                           *)
(***************************************************************************)
InitQueueFamilies ==
    pc = "findQueueFamilies" /\ QFStart /\ FormatIdle /\ ModeIdle /\ CapIdle /\ ProgramIdle

InitSurfaceFormat ==
    pc = "chooseSwapSurfaceFormat" /\ QFIdle /\ FormatStart /\ ModeIdle /\ CapIdle /\ ProgramIdle

InitPresentMode ==
    pc = "chooseSwapPresentMode" /\ QFIdle /\ FormatIdle /\ ModeStart /\ CapIdle /\ ProgramIdle

InitExtent ==
    pc = "chooseSwapExtent" /\ QFIdle /\ FormatIdle /\ ModeIdle /\ ExtentStart /\ ProgramIdle

InitImageCount ==
    pc = "imageCount" /\ QFIdle /\ FormatIdle /\ ModeIdle /\ ImageCountStart /\ ProgramIdle

SpecQueueFamilies == InitQueueFamilies /\ [][NextQueueFamilies]_vars

SpecSurfaceFormat == InitSurfaceFormat /\ [][ChooseSwapSurfaceFormat]_vars

SpecPresentMode == InitPresentMode /\ [][ChooseSwapPresentMode]_vars

SpecExtent == InitExtent /\ [][ChooseSwapExtent]_vars

SpecImageCount == InitImageCount /\ [][RequestImageCount]_vars

InitCreateInfo ==
    pc = "createInfo" /\ CreateInfoStart /\ ProgramIdle

SpecCreateInfo == InitCreateInfo /\ [][FillCreateInfo]_vars

InitProgram ==
    /\ pc = "initWindow"
    /\ QFIdle /\ FormatIdle /\ ModeIdle
    /\ capabilities = IdleCapabilities
    /\ framebufferSize = Extent2D(2, 1)
    /\ extent = Extent2D(0, 0)
    /\ imageCount = 0
    /\ ProgramStart

SpecProgram == InitProgram /\ [][NextProgram]_vars

\* the program, and createSwapChain() called again on an invalidated surface
SpecRecreate == InitProgram /\ [][NextProgram \/ RecreateSwapChain]_vars

\* the program, and lines 291-305 of createSwapChain() applied a second time
SpecRoundTrip == InitProgram /\ [][NextProgram \/ ReprobeAndSelect]_vars

Init ==
    \/ InitQueueFamilies
    \/ InitSurfaceFormat
    \/ InitPresentMode
    \/ InitExtent
    \/ InitImageCount
    \/ InitProgram
    \/ InitCreateInfo

Next ==
    \/ FindQueueFamiliesIteration
    \/ FindQueueFamiliesReturn
    \/ ChooseSwapSurfaceFormat
    \/ ChooseSwapPresentMode
    \/ ChooseSwapExtent
    \/ RequestImageCount
    \/ NextProgram
    \/ ReprobeAndSelect
    \/ RecreateSwapChain
    \/ FillCreateInfo

Spec == Init /\ [][Next]_vars

(***************************************************************************)
(* Properties of findQueueFamilies (SpecQueueFamilies)                      *)
(***************************************************************************)
\* the 0-based indices of the families that advertise graphics
GraphicsFamilyIndices ==
    {n \in 0 .. Len(queueFamilies) - 1 : hasGraphics(queueFamilies[n + 1])}

\* the 0-based indices of the families that can present to the surface
PresentFamilyIndices ==
    {n \in 0 .. Len(queueFamilies) - 1 : surfaceSupport[n + 1]}

BothRecorded ==
    indices.graphicsFamily.has_value /\ indices.presentFamily.has_value

\* a recorded index is the lowest-numbered matching family
RecordedAreLowest ==
    /\ indices.graphicsFamily.has_value =>
          indices.graphicsFamily.value = FirstIndex(GraphicsFamilyIndices)
    /\ indices.presentFamily.has_value =>
          indices.presentFamily.value = FirstIndex(PresentFamilyIndices)

\* C1: findQueueFamilies records the lowest-numbered graphics family as the
\* graphics index and the lowest-numbered presenting family as the present
\* index, and an index, once recorded, is never overwritten by a later
\* matching family.
C1_FirstMatchWins ==
    [][/\ indices.graphicsFamily.has_value =>
              indices'.graphicsFamily = indices.graphicsFamily
       /\ indices.presentFamily.has_value =>
              indices'.presentFamily = indices.presentFamily
       /\ RecordedAreLowest']_vars

\* C2: when findQueueFamilies has returned, the graphics index is empty only
\* if no family advertises graphics and the present index is empty only if no
\* family supports presentation (so a presenting family after the first
\* graphics family is found).
C2_EmptyOnlyIfNoFamily ==
    pc = "findQueueFamilies_returned" =>
        /\ ~indices.graphicsFamily.has_value => GraphicsFamilyIndices = {}
        /\ ~indices.presentFamily.has_value => PresentFamilyIndices = {}

\* C3: isComplete() is true exactly when both the graphics index and the
\* present index hold a value.
C3_CompleteIffBoth ==
    isComplete(indices) <=> BothRecorded

\* C4: the scan leaves later families unlooked at only once both indices are
\* recorded, the surface-support query is issued for families 0, 1, ... up to
\* the family the scan stops at and for no later one, and on the list
\* <<neither, graphics and present>> the result is graphics = 1, present = 1
\* with the scan stopped at index 1.
C4_StopsOnceBothRecorded ==
    pc = "findQueueFamilies_returned" =>
        /\ Len(queried) < Len(queueFamilies) => BothRecorded
        /\ \A k \in 1 .. Len(queried) : queried[k] = k - 1
        /\ BothRecorded =>
              \A k \in 1 .. Len(queried) :
                  \/ queried[k] <= indices.graphicsFamily.value
                  \/ queried[k] <= indices.presentFamily.value
        /\ ( /\ Len(queueFamilies) = 2
             /\ ~hasGraphics(queueFamilies[1]) /\ ~surfaceSupport[1]
             /\ hasGraphics(queueFamilies[2]) /\ surfaceSupport[2] ) =>
              /\ indices = [graphicsFamily |-> Some(1), presentFamily |-> Some(1)]
              /\ i = 1
              /\ queried = <<0, 1>>

(***************************************************************************)
(* Properties of chooseSwapSurfaceFormat (SpecSurfaceFormat)                *)
(***************************************************************************)
PreferredSurfaceFormat ==
    [format |-> VK_FORMAT_B8G8R8A8_SRGB,
     colorSpace |-> VK_COLOR_SPACE_SRGB_NONLINEAR_KHR]

ListsPreferred ==
    \E k \in 1 .. Len(availableFormats) : availableFormats[k] = PreferredSurfaceFormat

\* C5: when the supported-format list contains the pair (B8G8R8A8 sRGB,
\* sRGB-nonlinear), chooseSwapSurfaceFormat returns exactly that pair,
\* wherever it stands in the list and whatever precedes it.
C5_PreferredPairReturned ==
    (pc = "chooseSwapSurfaceFormat_returned" /\ ListsPreferred) =>
        surfaceFormat = PreferredSurfaceFormat

\* the preferred pair is last of three, behind an entry of the same pixel
\* format in another color space, and it is what was returned
C5_Witness ==
    /\ pc = "chooseSwapSurfaceFormat_returned"
    /\ Len(availableFormats) = 3
    /\ availableFormats[1].format = VK_FORMAT_B8G8R8A8_SRGB
    /\ availableFormats[1].colorSpace # VK_COLOR_SPACE_SRGB_NONLINEAR_KHR
    /\ availableFormats[2].format # VK_FORMAT_B8G8R8A8_SRGB
    /\ availableFormats[3] = PreferredSurfaceFormat
    /\ surfaceFormat = PreferredSurfaceFormat

\* C6: when the supported-format list is non-empty and lacks the preferred
\* pair, chooseSwapSurfaceFormat returns the first entry of the list.
C6_FallbackToFirst ==
    ( /\ pc = "chooseSwapSurfaceFormat_returned"
      /\ Len(availableFormats) > 0
      /\ ~ListsPreferred ) =>
        surfaceFormat = availableFormats[1]

(***************************************************************************)
(* Properties of chooseSwapPresentMode (SpecPresentMode)                    *)
(***************************************************************************)
ListsMailbox ==
    \E k \in 1 .. Len(availablePresentModes) :
        availablePresentModes[k] = VK_PRESENT_MODE_MAILBOX_KHR

\* C7: chooseSwapPresentMode returns the mailbox mode if the list contains it
\* at any position and the FIFO mode otherwise, also for the empty list and
\* for lists of other modes only.
C7_MailboxElseFifo ==
    pc = "chooseSwapPresentMode_returned" =>
        presentMode = IF ListsMailbox
                      THEN VK_PRESENT_MODE_MAILBOX_KHR
                      ELSE VK_PRESENT_MODE_FIFO_KHR

\* mailbox is last of three, behind FIFO, and it is what was returned
C7_Witness ==
    /\ pc = "chooseSwapPresentMode_returned"
    /\ Len(availablePresentModes) = 3
    /\ availablePresentModes[1] = VK_PRESENT_MODE_FIFO_KHR
    /\ availablePresentModes[2] = VK_PRESENT_MODE_IMMEDIATE_KHR
    /\ availablePresentModes[3] = VK_PRESENT_MODE_MAILBOX_KHR
    /\ presentMode = VK_PRESENT_MODE_MAILBOX_KHR

(***************************************************************************)
(* Properties of chooseSwapExtent (SpecExtent).  The "application chooses"  *)
(* sentinel is read the way the function tests it, on currentExtent.width.  *)
(***************************************************************************)
CurrentExtentIsSentinel == capabilities.currentExtent.width = UINT32_MAX

\* r is v brought into lo..hi
ClampedInto(r, v, lo, hi) ==
    /\ lo <= r /\ r <= hi
    /\ (lo <= v /\ v <= hi) => r = v
    /\ v < lo => r = lo
    /\ v > hi => r = hi

\* C8: when currentExtent is not the sentinel, chooseSwapExtent returns
\* currentExtent unchanged, whatever the framebuffer size and the min/max
\* extents are.
C8_CurrentExtentVerbatim ==
    (pc = "chooseSwapExtent_returned" /\ ~CurrentExtentIsSentinel) =>
        extent = capabilities.currentExtent

\* an explicit currentExtent below minImageExtent and unlike the framebuffer
\* size was returned as it is
C8_Witness ==
    /\ pc = "chooseSwapExtent_returned"
    /\ capabilities.currentExtent = Extent2D(1, UINT32_MAX)
    /\ capabilities.minImageExtent = Extent2D(2, 0)
    /\ capabilities.maxImageExtent = Extent2D(2, 1)
    /\ framebufferSize = Extent2D(0, 2)
    /\ extent = Extent2D(1, UINT32_MAX)

\* C9: when currentExtent is the sentinel, chooseSwapExtent returns the
\* framebuffer size with the width clamped into the min/max widths and the
\* height clamped into the min/max heights, each on its own; a size inside
\* the bounds is returned unchanged.
C9_ClampedFramebuffer ==
    (pc = "chooseSwapExtent_returned" /\ CurrentExtentIsSentinel) =>
        /\ ClampedInto(extent.width, framebufferSize.width,
                       capabilities.minImageExtent.width,
                       capabilities.maxImageExtent.width)
        /\ ClampedInto(extent.height, framebufferSize.height,
                       capabilities.minImageExtent.height,
                       capabilities.maxImageExtent.height)

\* the width was raised to the minimum while the height was cut to the maximum
C9_Witness ==
    /\ pc = "chooseSwapExtent_returned"
    /\ capabilities.currentExtent = Extent2D(UINT32_MAX, UINT32_MAX)
    /\ capabilities.minImageExtent = Extent2D(1, 0)
    /\ capabilities.maxImageExtent = Extent2D(2, 1)
    /\ framebufferSize = Extent2D(0, 2)
    /\ extent = Extent2D(1, 1)

\* the framebuffer size brought into the min/max extents
ClampedFramebuffer ==
    Extent2D(clamp(framebufferSize.width % Modulus,
                   capabilities.minImageExtent.width,
                   capabilities.maxImageExtent.width),
             clamp(framebufferSize.height % Modulus,
                   capabilities.minImageExtent.height,
                   capabilities.maxImageExtent.height))

\* C26: chooseSwapExtent decides from currentExtent.width alone.  A record
\* with an explicit width and a maximum height is returned as it is, the
\* height not clamped; a record with the maximum width and an explicit height
\* is replaced by the clamped framebuffer size; and the result for a record
\* that differs in currentExtent.height only comes from the same branch.
C26_WidthAloneDecides ==
    pc = "chooseSwapExtent_returned" =>
        LET current == capabilities.currentExtent
        IN  /\ (current.width # UINT32_MAX /\ current.height = UINT32_MAX) =>
                  extent = Extent2D(current.width, UINT32_MAX)
            /\ (current.width = UINT32_MAX /\ current.height # UINT32_MAX) =>
                  extent = ClampedFramebuffer
            /\ \A h \in DimValues :
                  LET other == [capabilities EXCEPT !.currentExtent.height = h]
                  IN  chooseSwapExtent(other, framebufferSize) =
                         IF current.width # UINT32_MAX
                         THEN Extent2D(current.width, h)
                         ELSE ClampedFramebuffer

\* a record with the maximum width and the explicit height 0 was replaced by
\* the clamped framebuffer size
C26_Witness ==
    /\ pc = "chooseSwapExtent_returned"
    /\ capabilities.currentExtent = Extent2D(UINT32_MAX, 0)
    /\ capabilities.minImageExtent = Extent2D(1, 1)
    /\ capabilities.maxImageExtent = Extent2D(2, 2)
    /\ framebufferSize = Extent2D(2, 1)
    /\ extent = Extent2D(2, 1)

(***************************************************************************)
(* Properties of the image count (SpecImageCount).  minImageCount + 1 is a  *)
(* uint32_t sum.                                                            *)
(***************************************************************************)
\* C10: the requested image count is minImageCount + 1, except that it is
\* maxImageCount when maxImageCount is nonzero and minImageCount + 1 exceeds
\* it; min 2, max 0 gives 3 and min 3, max 3 gives 3.
C10_ImageCount ==
    pc = "imageCount_computed" =>
        LET plusOne == (capabilities.minImageCount + 1) % Modulus
        IN  /\ imageCount =
                  IF capabilities.maxImageCount # 0 /\ plusOne > capabilities.maxImageCount
                  THEN capabilities.maxImageCount
                  ELSE plusOne
            /\ (capabilities.minImageCount = 2 /\ capabilities.maxImageCount = 0) =>
                  imageCount = 3
            /\ (capabilities.minImageCount = 3 /\ capabilities.maxImageCount = 3) =>
                  imageCount = 3

\* min 3, max 3: the count was held at the maximum
C10_Witness ==
    /\ pc = "imageCount_computed"
    /\ capabilities.minImageCount = 3
    /\ capabilities.maxImageCount = 3
    /\ imageCount = 3

\* C27: for every capability record with minImageCount <= maxImageCount
\* whenever maxImageCount > 0, the requested image count is at least
\* minImageCount and, when maxImageCount > 0, at most maxImageCount, the
\* largest minImageCount of the word included.
C27_ImageCountWithinLimits ==
    (/\ pc = "imageCount_computed"
     /\ capabilities.maxImageCount > 0 =>
           capabilities.minImageCount <= capabilities.maxImageCount)
    => /\ imageCount >= capabilities.minImageCount
       /\ capabilities.maxImageCount > 0 => imageCount <= capabilities.maxImageCount

(***************************************************************************)
(* The program run: device selection and the building of the swap chain    *)
(***************************************************************************)

\* the places of the log where op was called
Positions(op) == {k \in DOMAIN log : log[k].op = op}

\* the places of the log where createSwapChain() probed the chosen device:
\* after the logical device was created
ProbesOfCreateSwapChain ==
    LET created == Positions("vkCreateDevice")
    IN  {q \in Positions("querySwapChainSupport") :
            /\ log[q].dev = physicalDevice
            /\ \E c \in created : c < q}

\* the places of the log where the indices were resolved for the sharing mode
ResolvesOfCreateSwapChain ==
    LET created == Positions("vkCreateDevice")
    IN  {r \in Positions("findQueueFamilies") :
            /\ log[r].dev = physicalDevice
            /\ \E c \in created : c < r}

\* createInfo has been filled
CreateInfoFilled == createInfo # NoCreateInfo

\* the swap chain exists
Built == \E b \in Positions("vkCreateSwapchainKHR") : log[b].ok

\* C11: createSwapChain declares concurrent sharing with exactly the two
\* indices listed, graphics then present, if and only if the resolved graphics
\* and present indices differ; when they are equal it declares exclusive
\* sharing with no index listed.
C11_SharingMode ==
    CreateInfoFilled =>
        LET resolved == findQueueFamilies(devices[physicalDevice])
            graphics == resolved.graphicsFamily.value
            present == resolved.presentFamily.value
        IN  /\ resolved.graphicsFamily.has_value
            /\ resolved.presentFamily.has_value
            /\ IF graphics # present
               THEN /\ createInfo.imageSharingMode = VK_SHARING_MODE_CONCURRENT
                    /\ createInfo.queueFamilyIndexCount = 2
                    /\ createInfo.pQueueFamilyIndices = <<graphics, present>>
               ELSE /\ createInfo.imageSharingMode = VK_SHARING_MODE_EXCLUSIVE
                    /\ createInfo.queueFamilyIndexCount = 0
                    /\ createInfo.pQueueFamilyIndices = <<>>

\* createInfo was filled for a device whose graphics family is 1 and whose
\* present family is 0
C11_Witness ==
    /\ CreateInfoFilled
    /\ indices.graphicsFamily = Some(1)
    /\ indices.presentFamily = Some(0)
    /\ createInfo.imageSharingMode = VK_SHARING_MODE_CONCURRENT

\* isDeviceSuitable queried the swap-chain support of device d
Probed(d) ==
    \E q \in Positions("querySwapChainSupport") : log[q].dev = d

\* C12: isDeviceSuitable counts a device as swap-chain adequate if and only
\* if querySwapChainSupport was called and returned a non-empty format list
\* and a non-empty presentation-mode list; the device that is accepted has
\* both lists non-empty.
C12_SwapChainAdequate ==
    \A d \in DOMAIN verdicts :
        /\ verdicts[d].swapChainAdequate <=>
              /\ Probed(d)
              /\ querySwapChainSupport(devices[d]).formats # <<>>
              /\ querySwapChainSupport(devices[d]).presentModes # <<>>
        /\ verdicts[d].suitable =>
              /\ devices[d].formats # <<>>
              /\ devices[d].presentModes # <<>>

\* a device with complete indices, the extension and a format, but no
\* presentation mode, was looked at and passed over, and a later one accepted
C12_Witness ==
    \E d \in DOMAIN verdicts :
        /\ isComplete(verdicts[d].indices)
        /\ Probed(d)
        /\ devices[d].formats # <<>>
        /\ devices[d].presentModes = <<>>
        /\ ~verdicts[d].suitable
        /\ physicalDevice > d

\* the places of the log where the three selections had all returned
Selected ==
    LET formatChoices == Positions("chooseSwapSurfaceFormat")
        modeChoices == Positions("chooseSwapPresentMode")
    IN  {s \in Positions("chooseSwapExtent") :
            /\ \E f \in formatChoices : f < s
            /\ \E m \in modeChoices : m < s}

\* C13: no state of the lifecycle is skipped.  The create call is made only
\* after a configuration was selected (Built only via Configured), and a
\* configuration is selected only after createSwapChain() probed the chosen
\* device, from what that probe returned, with both lists non-empty
\* (Configured only from Probing).
C13_NoStateSkips ==
    LET selected == Selected
        probes == ProbesOfCreateSwapChain
    IN
    /\ \A b \in Positions("vkCreateSwapchainKHR") :
          /\ \E s \in selected : s < b
          /\ surfaceFormat # NoSurfaceFormat
          /\ presentMode \in PresentModes
          /\ imageCount > 0
    /\ \A s \in selected :
          /\ \E q \in probes : q < s
          /\ availableFormats = devices[physicalDevice].formats
          /\ availablePresentModes = devices[physicalDevice].presentModes
          /\ capabilities = devices[physicalDevice].capabilities
          /\ availableFormats # <<>>
          /\ availablePresentModes # <<>>

\* the chain was built and its images retrieved
C13_Witness ==
    /\ Built
    /\ swapChainImages # <<>>
    /\ Selected # {}

\* C14: the create call is issued only after the surface capabilities were
\* queried, after the three selections, made after that query, returned, and
\* after the queue family indices for the sharing mode were resolved.
C14_ProbeSelectBuild ==
    LET probes == ProbesOfCreateSwapChain
        formatChoices == Positions("chooseSwapSurfaceFormat")
        modeChoices == Positions("chooseSwapPresentMode")
        extentChoices == Positions("chooseSwapExtent")
        resolves == ResolvesOfCreateSwapChain
    IN
    \A b \in Positions("vkCreateSwapchainKHR") :
        /\ \E q \in probes :
              /\ \E f \in formatChoices : q < f /\ f < b
              /\ \E m \in modeChoices : q < m /\ m < b
              /\ \E e \in extentChoices : q < e /\ e < b
        /\ \E r \in resolves : r < b
        /\ CreateInfoFilled

\* the create call has just been issued
C14_Witness ==
    /\ Positions("vkCreateSwapchainKHR") # {}
    /\ pc \in {"createSwapChain_images", "EXIT_FAILURE"}

\* the places of the log where the create call did not return success
FailedCreates == {b \in Positions("vkCreateSwapchainKHR") : ~log[b].ok}

\* C15: if the swap-chain create call does not return success the error is
\* fatal: the call is made once only, no image handle is retrieved or stored,
\* the main loop and cleanup are never entered, and main has printed the
\* error and returned EXIT_FAILURE.
C15_CreateFailureFatal ==
    FailedCreates # {} =>
        /\ Cardinality(Positions("vkCreateSwapchainKHR")) = 1
        /\ Positions("vkGetSwapchainImagesKHR") = {}
        /\ swapChainImages = <<>>
        /\ ~windowShouldClose
        /\ Positions("vkDestroySwapchainKHR") = {}
        /\ pc = "EXIT_FAILURE"
        /\ stderr = "failed to create swap chain!"

\* the create call failed
C15_Witness ==
    /\ FailedCreates # {}
    /\ pc = "EXIT_FAILURE"

\* an inadequate candidate device: its resolved indices are
\* incomplete, a required extension is missing, or a list is empty
Inadequate(device) ==
    \/ ~findQueueFamilies(device).graphicsFamily.has_value
    \/ ~findQueueFamilies(device).presentFamily.has_value
    \/ ~(deviceExtensions \subseteq device.extensions)
    \/ device.formats = <<>>
    \/ device.presentModes = <<>>

\* the messages of the errors that a candidate device can cause
DeviceErrors == {"failed to find a suitable GPU!", "bad optional access"}

\* C16: an inadequate candidate device is not fatal: pickPhysicalDevice skips
\* it, the device selected is the first adequate one in enumeration order,
\* and an error is raised over the candidates only when every one of them was
\* looked at and none is adequate.
C16_InadequateSkipped ==
    /\ \A d \in DOMAIN devices : Inadequate(devices[d]) => physicalDevice # d
    /\ physicalDevice # 0 =>
          \A e \in 1 .. physicalDevice - 1 : Inadequate(devices[e])
    /\ stderr \in DeviceErrors =>
          /\ Len(devices) = deviceCount
          /\ physicalDevice = 0
          /\ \A d \in DOMAIN devices : Inadequate(devices[d])

SwapChainCalls == {"vkGetSwapchainImagesKHR", "vkDestroySwapchainKHR"}

\* the places of the log where the logical device or the surface is destroyed
OwnerDestroyed ==
    Positions("vkDestroyDevice") \cup Positions("vkDestroySurfaceKHR")

\* C18: when a swap chain was built and shutdown is reached, the swap chain
\* is destroyed, once, before the logical device and before the surface, and
\* no call uses or destroys it after either of them.
C18_SwapChainDestroyedFirst ==
    /\ (Built /\ pc = "EXIT_SUCCESS") =>
          /\ Cardinality(Positions("vkDestroySwapchainKHR")) = 1
          /\ Positions("vkDestroyDevice") # {}
          /\ Positions("vkDestroySurfaceKHR") # {}
    /\ \A x \in OwnerDestroyed :
          /\ \E s \in Positions("vkDestroySwapchainKHR") : s < x
          /\ \A k \in DOMAIN log : k > x => log[k].op \notin SwapChainCalls

\* a run that built the chain has shut down
C18_Witness ==
    /\ Built
    /\ pc = "EXIT_SUCCESS"
    /\ OwnerDestroyed # {}

\* C19: with the surface unchanged, probing and selecting again after the
\* chain was built yields the configuration the chain was built with: the
\* same format, color space, presentation mode, extent and image count.
C19_RoundTrip ==
    pc = "createSwapChain_reselected" =>
        /\ surfaceFormat.format = createInfo.imageFormat
        /\ surfaceFormat.colorSpace = createInfo.imageColorSpace
        /\ presentMode = createInfo.presentMode
        /\ extent = createInfo.imageExtent
        /\ imageCount = createInfo.minImageCount

\* the places of the log where the surface was invalidated
Invalidations == Positions("framebufferSizeChanged")

\* after the invalidation the capabilities were queried again and a fresh
\* configuration selected
Reconfigured ==
    \E x \in Invalidations :
        \E q \in Positions("querySwapChainSupport") :
            \E s \in Selected : x < q /\ q < s

\* C20: after a chain has been built, a surface invalidation takes the
\* subsystem back to Probing: once the program has handled events again, or
\* has left the main loop, since the invalidation, the capabilities have been
\* queried again and a fresh configuration selected, and the extent in use is
\* not the one computed for the old framebuffer size.
C20_InvalidationReprobes ==
    (/\ Built
     /\ surfaceInvalidated
     /\ polledInvalidated \/ pc \in {"cleanup", "EXIT_SUCCESS"})
    => /\ Reconfigured
       /\ extent = chooseSwapExtent(capabilities, framebufferSize)

ImagesRetrieved == Positions("vkGetSwapchainImagesKHR") # {}

\* C22: after a successful create call the stored image list has exactly as
\* many handles as the driver reports for the chain, which is at least the
\* count asked for, and the stored format and extent are the ones that were
\* selected and passed to the create call.
C22_StoredChain ==
    ImagesRetrieved =>
        /\ swapChain.created
        /\ Len(swapChainImages) = swapChain.imageCount
        /\ Len(swapChainImages) >= createInfo.minImageCount
        /\ swapChainImageFormat = surfaceFormat.format
        /\ swapChainImageFormat = createInfo.imageFormat
        /\ swapChainExtent = extent
        /\ swapChainExtent = createInfo.imageExtent

\* the driver made more images than were asked for, and they were retrieved
C22_Witness ==
    /\ ImagesRetrieved
    /\ Len(swapChainImages) > createInfo.minImageCount
    /\ swapChainExtent = Extent2D(2, 1)

\* C23: every swap-chain creation request, whatever the capabilities and the
\* selections, has one array layer per image, color-attachment usage, the
\* pre-transform the capabilities report as the current transform, opaque
\* alpha compositing, and clipping enabled.
C23_FixedPolicyFields ==
    createInfo # NoCreateInfo =>
        /\ createInfo.imageArrayLayers = 1
        /\ createInfo.imageUsage = "VK_IMAGE_USAGE_COLOR_ATTACHMENT_BIT"
        /\ createInfo.preTransform = capabilities.currentTransform
        /\ createInfo.compositeAlpha = "VK_COMPOSITE_ALPHA_OPAQUE_BIT_KHR"
        /\ createInfo.clipped = TRUE

\* createInfo was filled for a surface that reports a rotation
C23_Witness ==
    /\ pc = "createInfo_filled"
    /\ capabilities.currentTransform = VK_SURFACE_TRANSFORM_ROTATE_90_BIT_KHR
    /\ createInfo.preTransform = VK_SURFACE_TRANSFORM_ROTATE_90_BIT_KHR
    /\ createInfo.presentMode = VK_PRESENT_MODE_MAILBOX_KHR

\* the logical device exists and its queues were retrieved
QueuesRetrieved == deviceQueues # NoDeviceQueues

\* C24: createLogicalDevice requests a queue for every distinct family among
\* the resolved graphics and present indices, so the graphics queue and the
\* present queue it retrieves both belong to a family that was requested.
C24_RetrievedQueuesRequested ==
    QueuesRetrieved =>
        LET resolved == findQueueFamilies(devices[physicalDevice])
        IN  /\ deviceQueues.requested =
                  {resolved.graphicsFamily.value, resolved.presentFamily.value}
            /\ deviceQueues.graphicsQueue.value \in deviceQueues.requested
            /\ deviceQueues.presentQueue.value \in deviceQueues.requested

\* C25: for every device that isDeviceSuitable accepts, findQueueFamilies
\* yields both a graphics index and a present index, so the reads of value()
\* in createLogicalDevice and createSwapChain never meet an empty optional.
C25_AcceptedHasBothIndices ==
    /\ \A d \in DOMAIN verdicts :
          verdicts[d].suitable =>
              /\ verdicts[d].indices.graphicsFamily.has_value
              /\ verdicts[d].indices.presentFamily.has_value
    /\ stderr # "bad optional access"

\* the calls that destroy an object or end the windowing library
DestroyOps ==
    {"vkDestroySwapchainKHR", "vkDestroyDevice", "DestroyDebugUtilsMessengerEXT",
     "vkDestroySurfaceKHR", "vkDestroyInstance", "glfwDestroyWindow", "glfwTerminate"}

\* the destroying calls made, in order
Destroyed == [k \in DOMAIN SelectSeq(log, LAMBDA c : c.op \in DestroyOps) |->
                 SelectSeq(log, LAMBDA c : c.op \in DestroyOps)[k].op]

\* each call that creates an object, with the call that destroys it
CreatedBy ==
    {<<"glfwInit", "glfwTerminate">>,
     <<"glfwCreateWindow", "glfwDestroyWindow">>,
     <<"vkCreateInstance", "vkDestroyInstance">>,
     <<"CreateDebugUtilsMessengerEXT", "DestroyDebugUtilsMessengerEXT">>,
     <<"glfwCreateWindowSurface", "vkDestroySurfaceKHR">>,
     <<"vkCreateDevice", "vkDestroyDevice">>,
     <<"vkCreateSwapchainKHR", "vkDestroySwapchainKHR">>}

\* C28: on every run in which initialization succeeds and the window is
\* closed, cleanup destroys each created object exactly once, children before
\* parents: swap chain, logical device, debug messenger (exactly when
\* validation layers are enabled, the only case in which it was created),
\* surface, instance, window, and then the library is terminated.
C28_CleanupOrder ==
    pc = "EXIT_SUCCESS" =>
        /\ Destroyed =
              IF enableValidationLayers
              THEN <<"vkDestroySwapchainKHR", "vkDestroyDevice",
                     "DestroyDebugUtilsMessengerEXT", "vkDestroySurfaceKHR",
                     "vkDestroyInstance", "glfwDestroyWindow", "glfwTerminate">>
              ELSE <<"vkDestroySwapchainKHR", "vkDestroyDevice",
                     "vkDestroySurfaceKHR", "vkDestroyInstance",
                     "glfwDestroyWindow", "glfwTerminate">>
        /\ \A pair \in CreatedBy :
              /\ Cardinality(Positions(pair[1])) = Cardinality(Positions(pair[2]))
              /\ Cardinality(Positions(pair[2])) <= 1
              /\ \A c \in Positions(pair[1]) : log[c].ok
        /\ Positions("CreateDebugUtilsMessengerEXT") # {} <=> enableValidationLayers

\* a run with validation layers has shut down and destroyed its messenger
C28_Witness ==
    /\ pc = "EXIT_SUCCESS"
    /\ enableValidationLayers
    /\ Positions("DestroyDebugUtilsMessengerEXT") # {}
    /\ windowShouldClose

\* the last call a run made when it ended with message
LastCallAt(message) ==
    LET lastCall == log[Len(log)]
    IN  CASE message = "failed to create instance!" ->
               lastCall = Call("vkCreateInstance", 0, FALSE)
          [] message = "failed to set up debug messenger!" ->
               lastCall = Call("CreateDebugUtilsMessengerEXT", 0, FALSE)
          [] message = "failed to create a window surface!" ->
               lastCall = Call("glfwCreateWindowSurface", 0, FALSE)
          [] message = "failed to find GPUs with Vulkan support!" ->
               lastCall = Call("glfwCreateWindowSurface", 0, TRUE)
          [] message = "failed to find a suitable GPU!" ->
               /\ lastCall.dev = deviceCount
               /\ lastCall.op \in {"checkDeviceExtensionSupport", "querySwapChainSupport"}
               /\ physicalDevice = 0
          [] message = "bad optional access" ->
               /\ lastCall = Call("findQueueFamilies", physicalDevice, TRUE)
               /\ Positions("vkCreateDevice") = {}
          [] message = "failed to create a logical device!" ->
               lastCall = Call("vkCreateDevice", physicalDevice, FALSE)
          [] message = "failed to create swap chain!" ->
               lastCall = Call("vkCreateSwapchainKHR", physicalDevice, FALSE)
          [] OTHER -> FALSE

\* C29: when a step of initVulkan raises an error, no later step runs (the
\* call that failed is the last the program made), the main loop is not
\* entered, cleanup is not executed and nothing that was created is
\* destroyed, and main has printed the error and returned EXIT_FAILURE.
C29_InitFailureSkipsCleanup ==
    (stderr # "" \/ pc = "EXIT_FAILURE") =>
        /\ pc = "EXIT_FAILURE"
        /\ stderr # ""
        /\ LastCallAt(stderr)
        /\ \A k \in DOMAIN log : log[k].ok \/ k = Len(log)
        /\ ~windowShouldClose
        /\ ~surfaceInvalidated
        /\ Positions("framebufferSizeChanged") = {}
        /\ \A k \in DOMAIN log : log[k].op \notin DestroyOps

\* the logical device could not be created: the instance and the surface
\* exist and are left as they are
C29_Witness ==
    /\ stderr = "failed to create a logical device!"
    /\ pc = "EXIT_FAILURE"
    /\ \E k \in Positions("glfwCreateWindowSurface") : log[k].ok
    /\ Positions("vkDestroySurfaceKHR") = {}

====
